---- MODULE Spec2Model ----
(***************************************************************************)
(* Bootstrap layer of the Feishu-Doris push service (src/main.py): the     *)
(* lifespan hook around the process-wide scheduler, the two exception      *)
(* handlers, GET / and GET /health.                                        *)
(*                                                                         *)
(* Strings are sequences of tokens (each token stands for one character or *)
(* one fixed piece of text), so slicing and containment are computed.      *)
(* All code between two suspension points of a coroutine is one action:    *)
(* the hook has a single suspension point (its yield), the request         *)
(* handlers and the exception handlers have none.                          *)
(*                                                                         *)
(* Spec runs every hook of the process with requests of each kind;         *)
(* SpecRequests runs the server's one hook with every outcome of the       *)
(* endpoints, long exception messages included.                            *)
(***************************************************************************)
EXTENDS Integers, Sequences, FiniteSets, TLC

VARIABLES
    running,        \* scheduler.running
    pc,             \* per hook: "idle", "serving" (suspended at the yield), "done"
    hookLog,        \* per hook: the records it wrote to the logger
    startCalls,     \* per hook: calls of scheduler.start()
    shutdownCalls,  \* per hook: calls of scheduler.shutdown()
    exitRuns,       \* per hook: runs of the finally clause
    startExc,       \* per hook: the exception scheduler.start() raised, or "none"
    raised,         \* per hook: the exception that left the hook, or "none"
    indexExists,    \* static/index.html exists
    indexContent,   \* its content
    resp            \* the last response sent, with the request and the state it saw

vars == <<running, pc, hookLog, startCalls, shutdownCalls, exitRuns, startExc,
          raised, indexExists, indexContent, resp>>

hookVars == <<pc, hookLog, startCalls, shutdownCalls, exitRuns, startExc, raised>>

-----------------------------------------------------------------------------
(* Bounds *)

\* number of lifespan context managers created over the life of the process
MaxHooks == 2

\* longest exception message a handler raises
MaxMsgLen == 502

-----------------------------------------------------------------------------
(* Program constants *)

\* str(exc)[:500]
DetailLimit == 500

Hooks == 1..MaxHooks

Min(a, b) == IF a <= b THEN a ELSE b

\* lengths of the exception messages tried: around the truncation limit
MsgLens == {0, 1, DetailLimit - 1, DetailLimit, DetailLimit + 1, MaxMsgLen}

\* a message of n characters whose characters vary with their position
Msg(n) == [i \in 1..n |-> IF i % 3 = 0 THEN "a" ELSE IF i % 3 = 1 THEN "b" ELSE "c"]

\* t occurs in s as a contiguous slice (Python's `t in s`)
Contains(s, t) ==
    \E i \in 1..(Len(s) + 1) :
        /\ i + Len(t) - 1 <= Len(s)
        /\ SubSeq(s, i, i + Len(t) - 1) = t

-----------------------------------------------------------------------------
(* The scheduler: app.config.scheduler, an object with start(), shutdown() *)
(* and running.  A call either succeeds or raises and changes nothing.     *)

StartOutcomes == {"ok", "StartError"}

ShutdownOutcomes == {"ok", "ShutdownError"}

\* exceptions thrown into the hook at its yield: an Exception and a
\* BaseException that is not an Exception (cancellation)
ThrownInto == {"ServeError", "CancelledError"}

\* isinstance(e, Exception)
IsException(e) == e \in {"StartError", "ShutdownError", "ServeError"}

\* scheduler.running after scheduler.start()
SchedulerStart(r, outcome) == IF outcome = "ok" THEN TRUE ELSE r

\* scheduler.running after scheduler.shutdown()
SchedulerShutdown(r, outcome) == IF outcome = "ok" THEN FALSE ELSE r

-----------------------------------------------------------------------------
(* lifespan: the hook's frame is [running, log, starts, shutdowns, exits,  *)
(* startExc, raised, atYield]; raised is the exception propagating.        *)

Frame(h) ==
    [running |-> running, log |-> hookLog[h], starts |-> startCalls[h],
     shutdowns |-> shutdownCalls[h], exits |-> exitRuns[h],
     startExc |-> startExc[h], raised |-> raised[h], atYield |-> pc[h] = "serving"]

Info(f, text) == [f EXCEPT !.log = Append(@, <<"info", text, "none">>)]

\* faulty variant: start the scheduler whatever its state
EntryShouldStartAlways(r) == TRUE

\* `if not scheduler.running:`
EntryShouldStart(r) == ~r

\* faulty variant: shut the scheduler down whatever its state
ExitShouldShutdownAlways(r) == TRUE

\* faulty variant: never shut the scheduler down
ExitShouldShutdownNever(r) == FALSE

\* `if scheduler.running:` of the finally clause
ExitShouldShutdown(r) == r

\* the try body up to the yield
TryBody(f, startOutcome) ==
    LET f1 == Info(f, "starting") IN
    IF EntryShouldStart(f1.running)
    THEN LET f2 == [f1 EXCEPT !.running = SchedulerStart(@, startOutcome),
                              !.starts = @ + 1]
         IN IF startOutcome = "ok"
            THEN [Info(f2, "scheduler started") EXCEPT !.atYield = TRUE]
            ELSE [f2 EXCEPT !.startExc = startOutcome, !.raised = startOutcome]
    ELSE [Info(f1, "scheduler already running") EXCEPT !.atYield = TRUE]

\* faulty variant: log the exception and swallow it
ExceptClauseSwallow(f) ==
    IF f.raised # "none" /\ IsException(f.raised)
    THEN [f EXCEPT !.log = Append(@, <<"error", "startup failed", f.raised>>),
                   !.raised = "none"]
    ELSE f

\* `except Exception as e: logger.error(...); raise`
ExceptClause(f) ==
    IF f.raised # "none" /\ IsException(f.raised)
    THEN [f EXCEPT !.log = Append(@, <<"error", "startup failed", f.raised>>)]
    ELSE f

\* the finally clause; an exception of shutdown() replaces the one propagating
FinallyClause(f, shutdownOutcome) ==
    LET f1 == [Info(f, "closing") EXCEPT !.exits = @ + 1, !.atYield = FALSE] IN
    IF ExitShouldShutdown(f1.running)
    THEN LET f2 == [f1 EXCEPT !.running = SchedulerShutdown(@, shutdownOutcome),
                              !.shutdowns = @ + 1]
         IN IF shutdownOutcome = "ok"
            THEN Info(f2, "scheduler stopped")
            ELSE [f2 EXCEPT !.raised = shutdownOutcome]
    ELSE Info(f1, "scheduler not running, nothing to stop")

\* write the frame back
Store(h, f) ==
    /\ running' = f.running
    /\ hookLog' = [hookLog EXCEPT ![h] = f.log]
    /\ startCalls' = [startCalls EXCEPT ![h] = f.starts]
    /\ shutdownCalls' = [shutdownCalls EXCEPT ![h] = f.shutdowns]
    /\ exitRuns' = [exitRuns EXCEPT ![h] = f.exits]
    /\ startExc' = [startExc EXCEPT ![h] = f.startExc]
    /\ raised' = [raised EXCEPT ![h] = f.raised]
    /\ pc' = [pc EXCEPT ![h] = IF f.atYield THEN "serving" ELSE "done"]
    /\ UNCHANGED <<indexExists, indexContent, resp>>

\* __aenter__: run the hook to its yield, or out of it when the entry raises
LifespanEnter(h) ==
    /\ pc[h] = "idle"
    /\ \E so \in StartOutcomes, sd \in ShutdownOutcomes :
          LET f == TryBody(Frame(h), so) IN
          Store(h, IF f.atYield THEN f ELSE FinallyClause(ExceptClause(f), sd))

\* __aexit__ without an exception: resume after the yield
LifespanExit(h) ==
    /\ pc[h] = "serving"
    /\ \E sd \in ShutdownOutcomes :
          Store(h, FinallyClause(Frame(h), sd))

\* __aexit__ with an exception: it is raised at the yield
LifespanThrow(h) ==
    /\ pc[h] = "serving"
    /\ \E e \in ThrownInto, sd \in ShutdownOutcomes :
          Store(h, FinallyClause(ExceptClause([Frame(h) EXCEPT !.raised = e]), sd))

-----------------------------------------------------------------------------
(* Exceptions a request handler raises, and the two exception handlers     *)

NoExc == [type |-> "none", msg |-> <<>>, status_code |-> 0, detail |-> <<>>]

\* Exception(msg) and its subclasses other than HTTPException
GenericExc(type, msg) ==
    [type |-> type, msg |-> msg, status_code |-> 0, detail |-> <<>>]

\* HTTPException(status_code=c, detail=d)
HttpExc(c, d) ==
    [type |-> "HTTPException", msg |-> <<>>, status_code |-> c, detail |-> d]

\* faulty variant: the whole message
TruncateNot(s) == s

\* faulty variant: the last 500 characters
TruncateTail(s) == SubSeq(s, Len(s) - Min(Len(s), DetailLimit) + 1, Len(s))

\* `str(exc)[:500]`
Truncate(s) == SubSeq(s, 1, Min(Len(s), DetailLimit))

\* @app.exception_handler(Exception)
global_exception_handler(url, method, exc) ==
    [via |-> "global_exception_handler",
     logged |-> <<"error", url, method, exc.msg>>,
     status_code |-> 500,
     body |-> [status |-> "failed",
               error |-> "internal server error",
               detail |-> Truncate(exc.msg),
               request_url |-> url,
               request_method |-> method]]

\* faulty variant: every HTTP exception answered as a 500
HttpStatusCollapsed(exc) == 500

\* `status_code=exc.status_code`
HttpStatus(exc) == exc.status_code

\* @app.exception_handler(HTTPException)
http_exception_handler(url, method, exc) ==
    [via |-> "http_exception_handler",
     logged |-> <<"warning", url, exc.status_code, exc.detail>>,
     status_code |-> HttpStatus(exc),
     body |-> [status |-> "failed",
               error |-> exc.detail,
               request_url |-> url,
               status_code |-> exc.status_code]]

\* what a handler returned: r.exc is NoExc, or the exception it raised.
\* The handler registered for the most specific class of the exception runs.
Respond(url, method, r) ==
    IF r.exc.type = "none"
    THEN [via |-> "handler", logged |-> <<>>,
          status_code |-> r.status_code, body |-> r.body]
    ELSE IF r.exc.type = "HTTPException"
    THEN http_exception_handler(url, method, r.exc)
    ELSE global_exception_handler(url, method, r.exc)

\* what a request saw of the state: nothing
NoAt == [running |-> FALSE, indexExists |-> FALSE, indexContent |-> ""]

\* the response with the request and what the request saw of the state
Sent(url, method, r, at) ==
    [url |-> url, method |-> method, exc |-> r.exc, at |-> at,
     response |-> Respond(url, method, r)]

-----------------------------------------------------------------------------
(* GET / *)

\* os.path.dirname(__file__)
AppDir == <<"/", "srv", "/", "feishu_push">>

\* os.path.join(os.path.dirname(__file__), "static", "index.html")
IndexPath == AppDir \o <<"/", "static", "/", "index.html">>

Contents == {"<html>v1</html>", "<html>v2</html>"}

\* faulty variant: the page answered without looking for the file
RootExistsAlways(exists) == TRUE

\* `os.path.exists(index_path)`
RootExists(exists) == exists

root(exists, content) ==
    IF ~RootExists(exists)
    THEN [exc |-> HttpExc(404, <<"index page not found, path: ">> \o IndexPath
                               \o <<"\n", "put index.html under static">>),
          status_code |-> 0, body |-> <<>>]
    ELSE [exc |-> NoExc, status_code |-> 200,
          body |-> IF exists THEN content ELSE "missing file"]

RequestRoot ==
    /\ resp' = Sent("/", "GET", root(indexExists, indexContent),
                    [NoAt EXCEPT !.indexExists = indexExists,
                                 !.indexContent = indexContent])
    /\ UNCHANGED <<running, hookVars, indexExists, indexContent>>

\* the deployment puts static/index.html in place or replaces it
IndexWrite ==
    /\ \E c \in Contents :
          /\ ~(indexExists /\ indexContent = c)
          /\ indexExists' = TRUE
          /\ indexContent' = c
    /\ UNCHANGED <<running, hookVars, resp>>

\* static/index.html is removed
IndexRemove ==
    /\ indexExists
    /\ indexExists' = FALSE
    /\ UNCHANGED <<running, hookVars, indexContent, resp>>

-----------------------------------------------------------------------------
(* GET /health *)

\* the attributes of the logging module
LoggingAttrs ==
    {"basicConfig", "DEBUG", "StreamHandler", "FileHandler", "getLogger",
     "Formatter", "LogRecord", "makeLogRecord"}

\* `logging.<name>`: NoExc, or the AttributeError the lookup raises
LoggingGetattr(name) ==
    IF name \in LoggingAttrs
    THEN NoExc
    ELSE GenericExc("AttributeError",
                    <<"module 'logging' has no attribute '", name, "'">>)

\* faulty variant: a health check that restarts a stopped scheduler
health_check_restarts(r) ==
    [running |-> TRUE, exc |-> LoggingGetattr("logTime"),
     status_code |-> 0, body |-> <<>>]

\* the dict is built key by key; running is the scheduler's flag afterwards
health_check(r) ==
    LET lookup == LoggingGetattr("logTime") IN
    IF lookup.type # "none"
    THEN [running |-> r, exc |-> lookup, status_code |-> 0, body |-> <<>>]
    ELSE [running |-> r, exc |-> NoExc, status_code |-> 200,
          body |-> [status |-> "success",
                    service |-> "feishu-doris push platform",
                    version |-> "1.0.0",
                    scheduler_running |-> r,
                    timestamp |-> "now"]]

RequestHealth ==
    LET r == health_check(running) IN
    /\ resp' = Sent("/health", "GET", r, [NoAt EXCEPT !.running = running])
    /\ running' = r.running
    /\ UNCHANGED <<hookVars, indexExists, indexContent>>

-----------------------------------------------------------------------------
(* Any other path: an endpoint of main_router, which returns or raises     *)

ApiUrls == {"/api/tasks"}

ApiMethods == {"GET", "POST"}

HttpCodes == {400, 500, 503}

HttpDetails == {<<"bad ", "parameter">>}

RouterOutcomes ==
    {[exc |-> NoExc, status_code |-> 200, body |-> "ok"]}
    \cup {[exc |-> GenericExc("Exception", Msg(n)), status_code |-> 0, body |-> <<>>] :
             n \in MsgLens}
    \cup {[exc |-> HttpExc(c, d), status_code |-> 0, body |-> <<>>] :
             c \in HttpCodes, d \in HttpDetails}

\* one outcome of each kind, with short texts
SampleOutcomes ==
    {[exc |-> NoExc, status_code |-> 200, body |-> "ok"],
     [exc |-> GenericExc("Exception", Msg(1)), status_code |-> 0, body |-> <<>>],
     [exc |-> HttpExc(400, <<"bad ", "parameter">>), status_code |-> 0, body |-> <<>>]}

RequestApi(methods, outcomes) ==
    /\ \E url \in ApiUrls, method \in methods, r \in outcomes :
          resp' = Sent(url, method, r, NoAt)
    /\ UNCHANGED <<running, hookVars, indexExists, indexContent>>

-----------------------------------------------------------------------------

NoResponse ==
    [url |-> "", method |-> "", exc |-> NoExc,
     at |-> NoAt,
     response |-> [via |-> "none", logged |-> <<>>, status_code |-> 0, body |-> <<>>]]

Init ==
    /\ running = FALSE
    /\ pc = [h \in Hooks |-> "idle"]
    /\ hookLog = [h \in Hooks |-> <<>>]
    /\ startCalls = [h \in Hooks |-> 0]
    /\ shutdownCalls = [h \in Hooks |-> 0]
    /\ exitRuns = [h \in Hooks |-> 0]
    /\ startExc = [h \in Hooks |-> "none"]
    /\ raised = [h \in Hooks |-> "none"]
    /\ indexExists \in BOOLEAN
    /\ indexContent \in Contents
    /\ resp = NoResponse

\* every hook of the process, and requests of every kind
Next ==
    \/ \E h \in Hooks : LifespanEnter(h)
    \/ \E h \in Hooks : LifespanExit(h)
    \/ \E h \in Hooks : LifespanThrow(h)
    \/ RequestRoot
    \/ RequestHealth
    \/ RequestApi({"GET"}, SampleOutcomes)
    \/ IndexWrite
    \/ IndexRemove

Spec == Init /\ [][Next]_vars

\* the server's one hook, and requests with every outcome of the endpoints
NextRequests ==
    \/ LifespanEnter(1)
    \/ LifespanExit(1)
    \/ LifespanThrow(1)
    \/ RequestRoot
    \/ RequestHealth
    \/ RequestApi(ApiMethods, RouterOutcomes)
    \/ IndexWrite
    \/ IndexRemove

SpecRequests == Init /\ [][NextRequests]_vars

-----------------------------------------------------------------------------
(* Properties *)

HealthFields == {"status", "service", "version", "scheduler_running", "timestamp"}

\* C1: every GET /health is answered by its handler with status 200 and the
\* payload {status, service, version, scheduler_running, timestamp}, whose
\* scheduler_running is the scheduler's flag at the call; never by the
\* generic 500 response.
C1_HealthReportsRunning ==
    resp.url = "/health" =>
        /\ resp.response.via = "handler"
        /\ resp.response.status_code = 200
        /\ DOMAIN resp.response.body = HealthFields
        /\ resp.response.body.scheduler_running = resp.at.running

\* C2: while any hook is in its serving period the scheduler is running, and
\* once hooks have exited and none is serving it is not running (granted
\* that no shutdown() raised), whatever the order of entries and exits.
C2_RunningWhileServing ==
    /\ \A h \in Hooks : pc[h] = "serving" => running
    /\ ( /\ \E h \in Hooks : pc[h] = "done"
         /\ \A h \in Hooks : pc[h] # "serving" /\ raised[h] # "ShutdownError" )
       => ~running

\* C3: scheduler.start() is only ever called in a state where the scheduler
\* is not running, so an entry that finds it running does not start it again.
C3_StartOnlyWhenStopped ==
    [][\A h \in Hooks :
          /\ startCalls'[h] > startCalls[h] => ~running
          /\ (pc[h] = "idle" /\ pc'[h] # "idle" /\ running)
                => startCalls'[h] = startCalls[h] /\ running']_vars

\* two hooks are serving and the second did not call start()
C3_Witness ==
    \E g, h \in Hooks :
        /\ g # h
        /\ pc[g] = "serving" /\ startCalls[g] = 1
        /\ pc[h] = "serving" /\ startCalls[h] = 0
        /\ running

\* C4: when the exit step runs while the scheduler is not running, it does
\* not call shutdown(), leaves the flag false and raises nothing of its own.
C4_ExitWhenStoppedIsNoOp ==
    [][\A h \in Hooks :
          (exitRuns'[h] > exitRuns[h] /\ ~running)
             => /\ shutdownCalls'[h] = shutdownCalls[h]
                /\ ~running'
                /\ raised'[h] # "ShutdownError"
                /\ pc[h] = "serving" => raised'[h] \in {"none"} \cup ThrownInto]_vars

\* a hook left its serving period normally while the scheduler was stopped
C4_Witness ==
    \E h \in Hooks :
        /\ pc[h] = "done"
        /\ exitRuns[h] = 1 /\ shutdownCalls[h] = 0
        /\ raised[h] = "none"
        /\ hookLog[h][Len(hookLog[h])][2] = "scheduler not running, nothing to stop"
        /\ ~running

ErrorFields == {"status", "error", "detail", "request_url", "request_method"}

\* C6: a handler's exception that is no HTTPException is answered with
\* status 500 and {status: failed, error, detail, request_url,
\* request_method}, detail being the first 500 characters of the message.
C6_GenericErrorTruncated ==
    LET e == resp.exc
        r == resp.response
    IN  e.type \notin {"none", "HTTPException"} =>
           /\ r.via = "global_exception_handler"
           /\ r.status_code = 500
           /\ DOMAIN r.body = ErrorFields
           /\ r.body.status = "failed"
           /\ r.body.request_url = resp.url
           /\ r.body.request_method = resp.method
           /\ Len(r.body.detail) <= 500
           /\ Len(r.body.detail) <= Len(e.msg)
           /\ Len(e.msg) >= 500 => Len(r.body.detail) = 500
           /\ \A i \in 1..Len(r.body.detail) : r.body.detail[i] = e.msg[i]
           /\ Len(e.msg) <= 500 => r.body.detail = e.msg

\* an endpoint raised an exception with a message of more than 500 characters
C6_Witness ==
    /\ resp.exc.type = "Exception"
    /\ Len(resp.exc.msg) > 500
    /\ resp.response.status_code = 500
    /\ Len(resp.response.body.detail) = 500

HttpErrorFields == {"status", "error", "request_url", "status_code"}

\* C7: a handler's HTTPException(c, d) is answered by the HTTP-exception
\* handler with status c and {status: failed, error: d, request_url,
\* status_code: c}.
C7_HttpErrorKeepsStatus ==
    LET e == resp.exc
        r == resp.response
    IN  e.type = "HTTPException" =>
           /\ r.via = "http_exception_handler"
           /\ r.status_code = e.status_code
           /\ DOMAIN r.body = HttpErrorFields
           /\ r.body.status = "failed"
           /\ r.body.error = e.detail
           /\ r.body.request_url = resp.url
           /\ r.body.status_code = e.status_code

\* an endpoint raised HTTPException(503, ...)
C7_Witness ==
    /\ resp.url \in ApiUrls
    /\ resp.exc.type = "HTTPException"
    /\ resp.exc.status_code = 503
    /\ resp.response.status_code = 503

\* C8: GET / answers 200 with the content of static/index.html when the file
\* exists at the request, and otherwise 404 through the HTTP-exception
\* handler with the expected path in the error detail.
C8_RootServesIndexOr404 ==
    LET r == resp.response IN
    resp.url = "/" =>
        IF resp.at.indexExists
        THEN /\ r.via = "handler"
             /\ r.status_code = 200
             /\ r.body = resp.at.indexContent
        ELSE /\ r.via = "http_exception_handler"
             /\ r.status_code = 404
             /\ r.body.status_code = 404
             /\ Contains(r.body.error, IndexPath)

\* GET / was answered 404 and the file has been put in place since
C8_Witness ==
    /\ resp.url = "/"
    /\ ~resp.at.indexExists
    /\ resp.response.status_code = 404
    /\ indexExists

\* C9: on every path out of the hook the exit step runs exactly once, and
\* unless shutdown() itself raises the scheduler is not running when the
\* hook finishes, also when the hook did not start it.
C9_ExitAlwaysStops ==
    /\ [](\A h \in Hooks : exitRuns[h] = IF pc[h] = "done" THEN 1 ELSE 0)
    /\ [][\A h \in Hooks :
             (pc[h] # "done" /\ pc'[h] = "done" /\ raised'[h] # "ShutdownError")
                => ~running']_vars

\* a hook that found the scheduler running, and so did not start it, was
\* left by an exception thrown into its serving period and stopped it
C9_Witness ==
    \E h \in Hooks :
        /\ pc[h] = "done"
        /\ startCalls[h] = 0 /\ shutdownCalls[h] = 1 /\ exitRuns[h] = 1
        /\ raised[h] \in ThrownInto
        /\ ~running

\* C10: the running flag changes only in a step of a hook; a hook calls
\* start() at most once and shutdown() at most once; a request leaves the
\* flag unchanged.
C10_OnlyHookChangesRunning ==
    [][/\ running' # running => \E h \in Hooks : pc'[h] # pc[h]
       /\ resp' # resp => running' = running /\ UNCHANGED hookVars
       /\ \A h \in Hooks : startCalls'[h] <= 1 /\ shutdownCalls'[h] <= 1]_vars

\* /health was requested while a hook was serving and the scheduler stopped
C10_Witness ==
    /\ resp.url = "/health"
    /\ ~resp.at.running
    /\ ~running
    /\ \E h \in Hooks : pc[h] = "serving"

====
